---- MODULE Spec2Model ----
(***************************************************************************)
(* A model of bin/basenji_data.py: the window tiler (contig_sequences),    *)
(* the split allocator (divide_contigs_pct, divide_contigs_chr), the       *)
(* mappability annotator (annotate_unmap) and the part of main() that      *)
(* filters windows, builds the two job families and dispatches them.       *)
(*                                                                         *)
(* Each function has its own variables (prefix cs_, dc_, au_; main's are   *)
(* unprefixed) and its own specification; a specification leaves the       *)
(* variables of the other functions at their idle values.                  *)
(*                                                                         *)
(* Floats of the source are modelled as exact rationals <<num, den>>.      *)
(***************************************************************************)
EXTENDS Integers, Sequences, FiniteSets, TLC

VARIABLES
  \* contig_sequences(contigs, seq_length, stride)
  cs_contigs,      \* argument: list of Contig
  cs_seq_length,   \* argument
  cs_stride,       \* argument: the float stride, a rational <<num, den>>
  cs_pc,           \* "for" | "while" | "done"
  cs_ci,           \* index of the contig the for loop is at (1-based)
  cs_seq_start,    \* local seq_start
  cs_seq_end,      \* local seq_end
  cs_mseqs,        \* local mseqs, the list returned
  cs_src           \* history: cs_src[k] is the index of the contig whose loop
                   \* appended cs_mseqs[k]

csVars == <<cs_contigs, cs_seq_length, cs_stride, cs_pc, cs_ci,
            cs_seq_start, cs_seq_end, cs_mseqs, cs_src>>

VARIABLES
  \* divide_contigs_pct(contigs, test_pct, valid_pct, pct_abstain) and
  \* divide_contigs_chr(contigs, test_chr, valid_chr)
  dc_mode,         \* "pct" | "chr" | "idle": which function was called
  dc_contigs,      \* argument: list of Contig
  dc_test,         \* argument: test_pct (a rational) or test_chr (a name)
  dc_valid,        \* argument: valid_pct (a rational) or valid_chr (a name)
  dc_pct_abstain,  \* argument: pct_abstain, a rational
  dc_pc,           \* "start" | "loop" | "done" | "error"
  length_contigs,  \* local: the (length, contig) pairs, sorted descending
  dc_i,            \* number of contigs the for loop has processed
  train_nt, valid_nt, test_nt,
  train_contigs, valid_contigs, test_contigs

dcVars == <<dc_mode, dc_contigs, dc_test, dc_valid, dc_pct_abstain, dc_pc,
            length_contigs, dc_i, train_nt, valid_nt, test_nt,
            train_contigs, valid_contigs, test_contigs>>

VARIABLES
  \* annotate_unmap(mseqs, unmap_bed.regions, seq_length, pool_width)
  au_mseqs,        \* argument: list of ModelSeq
  au_unmap_bed,    \* the regions of the unmappable BED file, in file order
  au_seq_length,   \* argument
  au_pool_width,   \* argument
  au_pc,           \* "start" | "lines" | "done" | "error" (AssertionError)
  au_lines,        \* the lines bedtools printed: <<window index, region index>>
  au_li,           \* number of lines the for loop has processed
  seqs_unmap,      \* local: the N x L boolean array
  pool_seq_unmap_start,  \* local, as left by the last line processed
  pool_seq_unmap_end     \* local, as left by the last line processed

auVars == <<au_mseqs, au_unmap_bed, au_seq_length, au_pool_width, au_pc,
            au_lines, au_li, seqs_unmap, pool_seq_unmap_start, pool_seq_unmap_end>>

VARIABLES
  \* main(), from the shuffle of the tiled windows on
  pc,              \* "shuffle" | "mappability" | "read_jobs" | "read_run" |
                   \* "write_jobs" | "write_run" | "done" | "error"
  run,             \* 1 for the first invocation, 2 for a re-run on the same inputs
  files,           \* the job output files that exist under out_dir
  files_at_start,  \* history: files as the current invocation found them
  tiled,           \* contig_sequences' results: [train, valid, test |-> list]
  seed,            \* options.seed, as the permutations random.shuffle draws
  seq_length,      \* options.seq_length
  pool_width,      \* options.pool_width
  unmap_bed,       \* options.unmap_bed: not given (None), or the regions of the file
  unmap_t,         \* options.unmap_t, a rational
  num_targets,     \* targets_df.shape[0]
  run_local,       \* options.run_local
  seqs_per_tfr,    \* options.seqs_per_tfr
  train_mseqs, valid_mseqs, test_mseqs,
  mseqs, mseqs_labels,
  mseqs_unmap,     \* the filtered mask; <<>> until it is assigned
  read_jobs, write_jobs,
  read_state,      \* read_state[k]: "pending" | "running" | "finished" | "failed"
  write_state

inVars == <<tiled, seed, seq_length, pool_width, unmap_bed, unmap_t,
            num_targets, run_local, seqs_per_tfr>>
winVars == <<train_mseqs, valid_mseqs, test_mseqs, mseqs, mseqs_labels, mseqs_unmap>>
jobVars == <<read_jobs, write_jobs, read_state, write_state>>
mainVars == <<pc, run, files, files_at_start, inVars, winVars, jobVars>>

vars == <<csVars, dcVars, auVars, mainVars>>

----------------------------------------------------------------------------
(* Bounds *)

MaxCtgLen == 5      \* longest small contig
MaxCtgStart == 1    \* largest start coordinate of a small contig
MaxSeqLength == 3   \* largest small seq_length
MaxMseqs == 12      \* cap on the windows a run of the tiler may append
MaxDivLen == 3      \* longest contig handed to the split allocator
MaxDivContigs == 3  \* most contigs handed to the split allocator
MaxPoolWidth == 11  \* largest pool_width handed to the annotator
MaxAuSeqLength == 12 \* largest seq_length handed to the annotator
MaxTrainSeqs == 2   \* most tiled train windows in main
MaxHeldSeqs == 1    \* most tiled valid windows, and most tiled test windows
MaxTargets == 2     \* most rows of the targets table
MaxSeqsPerTfr == 2  \* largest seqs_per_tfr
MaxRuns == 2        \* invocations of main on the same inputs and out_dir
MaxProcesses == 2   \* jobs the dispatcher runs at a time

----------------------------------------------------------------------------
(* Data *)

Chroms == {"chr1", "chr2"}

\* Contig = namedtuple('Contig', ['chr', 'start', 'end'])
Contig(chr, start, end) == [chr |-> chr, start |-> start, end |-> end]

\* ModelSeq = namedtuple('ModelSeq', ['chr', 'start', 'end'])
ModelSeq(chr, start, end) == [chr |-> chr, start |-> start, end |-> end]

\* Python's int() of a rational num/den (den > 0): truncation toward zero.
IntTrunc(num, den) ==
  IF num >= 0 THEN num \div den ELSE -((-num) \div den)

\* int(stride*seq_length)
StrideStep(stride, sl) == IntTrunc(stride[1] * sl, stride[2])

\* main: contigs = [ctg for ctg in contigs if ctg.end - ctg.start >= seq_length]
FilterLargeEnough(contigs, sl) ==
  SelectSeq(contigs, LAMBDA ctg : ctg.end - ctg.start >= sl)

----------------------------------------------------------------------------
(* contig_sequences *)

SmallContigs ==
  { Contig(c, s, s + l) : c \in Chroms, s \in 0..MaxCtgStart, l \in 1..MaxCtgLen }

\* stride multipliers: negative, zero, below one, one, above one
Strides == { <<-1, 2>>, <<0, 1>>, <<1, 4>>, <<1, 2>>, <<1, 1>>, <<3, 2>>, <<2, 1>> }

\* The end-to-end example: contigs of 100,000 and 300,000 nt, seq_length
\* 100000, stride 1.0.
ExampleContigs == << Contig("chr1", 0, 100000), Contig("chr2", 0, 300000) >>
ExampleSeqLength == 100000
ExampleStride == <<1, 1>>

SmallContigLists ==
  { <<>> } \cup { <<a>> : a \in SmallContigs }
           \cup { <<a, b>> : a \in SmallContigs, b \in {x \in SmallContigs : x.chr = "chr2"} }

csCallInit(contigs, sl, stride) ==
  /\ cs_contigs = contigs
  /\ cs_seq_length = sl
  /\ cs_stride = stride
  /\ cs_pc = "for"
  /\ cs_ci = 0
  /\ cs_seq_start = 0
  /\ cs_seq_end = 0
  /\ cs_mseqs = <<>>
  /\ cs_src = <<>>

csInit ==
  \/ \E contigs \in SmallContigLists, sl \in 1..MaxSeqLength, stride \in Strides :
       csCallInit(contigs, sl, stride)
  \/ csCallInit(ExampleContigs, ExampleSeqLength, ExampleStride)

csIdle == csCallInit(<<>>, 1, <<1, 1>>)

\* while seq_end < ctg_end:
WhileCond_le(seq_end, ctg_end) == seq_end <= ctg_end
WhileCond(seq_end, ctg_end) == seq_end < ctg_end

\* for chrom, ctg_start, ctg_end in contigs: seq_start = ctg_start;
\* seq_end = seq_start + seq_length
csFor ==
  /\ cs_pc = "for"
  /\ cs_ci < Len(cs_contigs)
  /\ cs_ci' = cs_ci + 1
  /\ cs_seq_start' = cs_contigs[cs_ci + 1].start
  /\ cs_seq_end' = cs_contigs[cs_ci + 1].start + cs_seq_length
  /\ cs_pc' = "while"
  /\ UNCHANGED <<cs_contigs, cs_seq_length, cs_stride, cs_mseqs, cs_src>>

\* one iteration of the while loop: record the sequence and advance
csWhileBody ==
  /\ cs_pc = "while"
  /\ WhileCond(cs_seq_end, cs_contigs[cs_ci].end)
  /\ Len(cs_mseqs) < MaxMseqs
  /\ cs_mseqs' = Append(cs_mseqs,
                        ModelSeq(cs_contigs[cs_ci].chr, cs_seq_start, cs_seq_end))
  /\ cs_src' = Append(cs_src, cs_ci)
  /\ cs_seq_start' = cs_seq_start + StrideStep(cs_stride, cs_seq_length)
  /\ cs_seq_end' = cs_seq_end + StrideStep(cs_stride, cs_seq_length)
  /\ UNCHANGED <<cs_contigs, cs_seq_length, cs_stride, cs_pc, cs_ci>>

\* the while condition is false: back to the for loop
csWhileExit ==
  /\ cs_pc = "while"
  /\ ~WhileCond(cs_seq_end, cs_contigs[cs_ci].end)
  /\ cs_pc' = "for"
  /\ UNCHANGED <<cs_contigs, cs_seq_length, cs_stride, cs_ci, cs_seq_start,
                 cs_seq_end, cs_mseqs, cs_src>>

\* return mseqs
csReturn ==
  /\ cs_pc = "for"
  /\ cs_ci = Len(cs_contigs)
  /\ cs_pc' = "done"
  /\ UNCHANGED <<cs_contigs, cs_seq_length, cs_stride, cs_ci, cs_seq_start,
                 cs_seq_end, cs_mseqs, cs_src>>

----------------------------------------------------------------------------
(* Rationals <<num, den>>, den > 0, standing for the source's floats *)

RatOfInt(n) == <<n, 1>>
RatSub(x, y) == <<x[1] * y[2] - y[1] * x[2], x[2] * y[2]>>
RatMul(x, y) == <<x[1] * y[1], x[2] * y[2]>>
RatLT(x, y) == x[1] * y[2] < y[1] * x[2]
RatMax(x, y) == IF RatLT(x, y) THEN y ELSE x
RatPos(x) == x[1] > 0

----------------------------------------------------------------------------
(* divide_contigs_pct and divide_contigs_chr *)

DivContigs == { Contig(c, 0, l) : c \in Chroms, l \in 1..MaxDivLen }

RECURSIVE SeqsUpTo(_, _)
SeqsUpTo(S, n) ==
  IF n = 0 THEN { <<>> }
  ELSE SeqsUpTo(S, n - 1) \cup
       { Append(q, x) : q \in {p \in SeqsUpTo(S, n - 1) : Len(p) = n - 1}, x \in S }

\* (test_pct, valid_pct) pairs in [0,1]; <<1,20>> is the default 0.05
PctPairs == { << <<1, 20>>, <<1, 20>> >>, << <<0, 1>>, <<0, 1>> >>,
              << <<1, 2>>, <<1, 2>> >>,   << <<1, 1>>, <<1, 1>> >>,
              << <<1, 2>>, <<1, 4>> >>,   << <<1, 1>>, <<0, 1>> >> }

\* pct_abstain: the default 0.2, 1.0, and a value above 1
Abstains == { <<1, 5>>, <<1, 1>>, <<2, 1>> }

\* chromosome names given as test_chr / valid_chr
ChrArgs == Chroms \cup {"chrX"}

dcCallInit(mode, contigs, test, valid, abstain) ==
  /\ dc_mode = mode
  /\ dc_contigs = contigs
  /\ dc_test = test
  /\ dc_valid = valid
  /\ dc_pct_abstain = abstain
  /\ dc_pc = "start"
  /\ length_contigs = <<>>
  /\ dc_i = 0
  /\ train_nt = 0 /\ valid_nt = 0 /\ test_nt = 0
  /\ train_contigs = <<>> /\ valid_contigs = <<>> /\ test_contigs = <<>>

dcInit ==
  \E contigs \in SeqsUpTo(DivContigs, MaxDivContigs) :
    \/ \E pp \in PctPairs, abstain \in Abstains :
         dcCallInit("pct", contigs, pp[1], pp[2], abstain)
    \/ \E test_chr \in ChrArgs, valid_chr \in ChrArgs :
         dcCallInit("chr", contigs, test_chr, valid_chr, <<1, 5>>)

dcIdle == dcCallInit("idle", <<>>, <<0, 1>>, <<0, 1>>, <<1, 5>>)

ChrRank(c) == IF c = "chr1" THEN 1 ELSE IF c = "chr2" THEN 2 ELSE 3

\* Python's order on the (length, Contig) tuples: a > b
LcGreater(a, b) ==
  \/ a[1] > b[1]
  \/ a[1] = b[1] /\ ChrRank(a[2].chr) > ChrRank(b[2].chr)
  \/ a[1] = b[1] /\ a[2].chr = b[2].chr /\ a[2].start > b[2].start
  \/ a[1] = b[1] /\ a[2].chr = b[2].chr /\ a[2].start = b[2].start
       /\ a[2].end > b[2].end

RemoveAt(s, i) == SubSeq(s, 1, i - 1) \o SubSeq(s, i + 1, Len(s))

\* length_contigs.sort(reverse=True)
RECURSIVE SortReverse(_)
SortReverse(s) ==
  IF s = <<>> THEN <<>>
  ELSE LET i == CHOOSE i \in DOMAIN s :
                  /\ \A j \in DOMAIN s : ~LcGreater(s[j], s[i])
                  /\ \A j \in 1..(i - 1) : LcGreater(s[i], s[j])
       IN <<s[i]>> \o SortReverse(RemoveAt(s, i))

\* length_contigs = [(ctg.end-ctg.start,ctg) for ctg in contigs]; sorted
LengthContigs(contigs) ==
  SortReverse([i \in DOMAIN contigs |->
                 <<contigs[i].end - contigs[i].start, contigs[i]>>])

RECURSIVE SumLensFrom(_, _)
SumLensFrom(lcs, i) == IF i > Len(lcs) THEN 0 ELSE lcs[i][1] + SumLensFrom(lcs, i + 1)
SumLens(lcs) == SumLensFrom(lcs, 1)

\* total_nt = sum([lc[0] for lc in length_contigs])
total_nt == SumLens(length_contigs)

test_nt_aim == RatMul(dc_test, RatOfInt(total_nt))
valid_nt_aim == RatMul(dc_valid, RatOfInt(total_nt))
train_nt_aim == RatSub(RatSub(RatOfInt(total_nt), valid_nt_aim), test_nt_aim)

\* gap between current and aim, and the abstention:
\*   gap = max(floor, aim - nt); if ctg_len > pct_abstain*gap: gap = 0
NtGap(floor, aim, nt) == RatMax(RatOfInt(floor), RatSub(aim, RatOfInt(nt)))
TooLarge_never(ctg_len, gap) == FALSE
TooLarge(ctg_len, gap) == RatLT(RatMul(dc_pct_abstain, gap), RatOfInt(ctg_len))
Abstained(ctg_len, gap) == IF TooLarge(ctg_len, gap) THEN RatOfInt(0) ELSE gap

\* the gaps p[0], p[1], p[2] are proportional to (their common divisor
\* gap_sum >= 1 is positive): np.random.choice draws an index of positive
\* probability
ChoiceGaps(ctg_len) ==
  << NtGap(1, train_nt_aim, train_nt),
     Abstained(ctg_len, NtGap(0, valid_nt_aim, valid_nt)),
     Abstained(ctg_len, NtGap(0, test_nt_aim, test_nt)) >>

\* lines 397-416
dcPctBegin ==
  /\ dc_mode = "pct" /\ dc_pc = "start"
  /\ length_contigs' = LengthContigs(dc_contigs)
  /\ dc_pc' = "loop"
  /\ UNCHANGED <<dc_mode, dc_contigs, dc_test, dc_valid, dc_pct_abstain, dc_i,
                 train_nt, valid_nt, test_nt,
                 train_contigs, valid_contigs, test_contigs>>

\* train_nt += ctg_len (and likewise valid_nt, test_nt)
AddNt(nt, ctg_len) == nt + ctg_len

\* one iteration of "for ctg_len, ctg in length_contigs" (lines 419-451)
dcPctAssign ==
  /\ dc_mode = "pct" /\ dc_pc = "loop"
  /\ dc_i < Len(length_contigs)
  /\ LET ctg_len == length_contigs[dc_i + 1][1]
         ctg == length_contigs[dc_i + 1][2]
         gaps == ChoiceGaps(ctg_len)
     IN \E ri \in {r \in 0..2 : RatPos(gaps[r + 1])} :
          /\ train_contigs' = IF ri = 0 THEN Append(train_contigs, ctg) ELSE train_contigs
          /\ train_nt' = IF ri = 0 THEN AddNt(train_nt, ctg_len) ELSE train_nt
          /\ valid_contigs' = IF ri = 1 THEN Append(valid_contigs, ctg) ELSE valid_contigs
          /\ valid_nt' = IF ri = 1 THEN AddNt(valid_nt, ctg_len) ELSE valid_nt
          /\ test_contigs' = IF ri = 2 THEN Append(test_contigs, ctg) ELSE test_contigs
          /\ test_nt' = IF ri = 2 THEN AddNt(test_nt, ctg_len) ELSE test_nt
  /\ dc_i' = dc_i + 1
  /\ UNCHANGED <<dc_mode, dc_contigs, dc_test, dc_valid, dc_pct_abstain, dc_pc,
                 length_contigs>>

\* the prints divide by total_nt (ZeroDivisionError when it is 0), then return
dcPctReturn ==
  /\ dc_mode = "pct" /\ dc_pc = "loop"
  /\ dc_i = Len(length_contigs)
  /\ dc_pc' = IF total_nt = 0 THEN "error" ELSE "done"
  /\ UNCHANGED <<dc_mode, dc_contigs, dc_test, dc_valid, dc_pct_abstain,
                 length_contigs, dc_i, train_nt, valid_nt, test_nt,
                 train_contigs, valid_contigs, test_contigs>>

\* if ctg.chr == test_chr: ... elif ctg.chr == valid_chr: ... else: ...
ChrToTest(ctg, test_chr, valid_chr) == ctg.chr = test_chr
ChrToValid_if(ctg, test_chr, valid_chr) == ctg.chr = valid_chr
ChrToValid(ctg, test_chr, valid_chr) == ctg.chr # test_chr /\ ctg.chr = valid_chr
ChrToTrain(ctg, test_chr, valid_chr) == ctg.chr # test_chr /\ ctg.chr # valid_chr

\* one iteration of "for ctg in contigs" (lines 480-491)
dcChrAssign ==
  /\ dc_mode = "chr" /\ dc_pc = "start"
  /\ dc_i < Len(dc_contigs)
  /\ LET ctg == dc_contigs[dc_i + 1]
         ctg_len == ctg.end - ctg.start
         to_test == ChrToTest(ctg, dc_test, dc_valid)
         to_valid == ChrToValid(ctg, dc_test, dc_valid)
         to_train == ChrToTrain(ctg, dc_test, dc_valid)
     IN /\ test_contigs' = IF to_test THEN Append(test_contigs, ctg) ELSE test_contigs
        /\ test_nt' = IF to_test THEN AddNt(test_nt, ctg_len) ELSE test_nt
        /\ valid_contigs' = IF to_valid THEN Append(valid_contigs, ctg) ELSE valid_contigs
        /\ valid_nt' = IF to_valid THEN AddNt(valid_nt, ctg_len) ELSE valid_nt
        /\ train_contigs' = IF to_train THEN Append(train_contigs, ctg) ELSE train_contigs
        /\ train_nt' = IF to_train THEN AddNt(train_nt, ctg_len) ELSE train_nt
  /\ dc_i' = dc_i + 1
  /\ UNCHANGED <<dc_mode, dc_contigs, dc_test, dc_valid, dc_pct_abstain, dc_pc,
                 length_contigs>>

\* total_nt = train_nt + valid_nt + test_nt; the prints divide by it
dcChrReturn ==
  /\ dc_mode = "chr" /\ dc_pc = "start"
  /\ dc_i = Len(dc_contigs)
  /\ dc_pc' = IF train_nt + valid_nt + test_nt = 0 THEN "error" ELSE "done"
  /\ UNCHANGED <<dc_mode, dc_contigs, dc_test, dc_valid, dc_pct_abstain,
                 length_contigs, dc_i, train_nt, valid_nt, test_nt,
                 train_contigs, valid_contigs, test_contigs>>

----------------------------------------------------------------------------
(* annotate_unmap *)

Max(a, b) == IF a >= b THEN a ELSE b
Min(a, b) == IF a <= b THEN a ELSE b

\* math.floor(n / d) and math.ceil(n / d) for n >= 0, d > 0
FloorDiv(n, d) == n \div d
CeilDiv(n, d) == (n + d - 1) \div d

\* a region of the BED file
Region(chr, start, end) == [chr |-> chr, start |-> start, end |-> end]

\* "bedtools intersect -wo -a seqs -b unmap": one line for every pair of a
\* window and a region on the same chromosome sharing at least one base,
\* windows in file order, and for each window the regions in file order.
Overlaps(w, r) == w.chr = r.chr /\ Max(w.start, r.start) < Min(w.end, r.end)

BedtoolsIntersect(ms, bed) ==
  LET nb == Len(bed)
      pairs == [n \in 1..(Len(ms) * nb) |->
                  <<((n - 1) \div nb) + 1, ((n - 1) % nb) + 1>>]
  IN SelectSeq(pairs, LAMBDA p : Overlaps(ms[p[1]], bed[p[2]]))

\* chr_start_indexes[(chr, start)]: the last index holding that key
ChrStartIndex(ms, chr, start) ==
  CHOOSE i \in DOMAIN ms :
    /\ ms[i].chr = chr /\ ms[i].start = start
    /\ \A j \in DOMAIN ms :
         (ms[j].chr = chr /\ ms[j].start = start) => j <= i

\* pool_seq_length = seq_length // pool_width
PoolSeqLength(sl, pw) == sl \div pw

\* "overlap < 0.2 * pool_width" for an integer overlap
MinorOverlap_le(overlap, pw) == 5 * overlap <= pw
MinorOverlap(overlap, pw) == 5 * overlap < pw

\* last_start = seq_start + (pool_seq_unmap_end - 1) * pool_width
LastStart_nominus(seq_start, unmap_end, pw) ==
  seq_start + unmap_end * pw
LastStart(seq_start, unmap_end, pw) ==
  seq_start + (unmap_end - 1) * pw

\* lines 346-363: the bin range [start, end) of one bedtools line
UnmapRange(seq_start, seq_end, unmap_start, unmap_end, pw) ==
  LET overlap_start == Max(seq_start, unmap_start)
      overlap_end == Min(seq_end, unmap_end)
      start0 == FloorDiv(overlap_start - seq_start, pw)
      end0 == CeilDiv(overlap_end - seq_start, pw)
      first_start == seq_start + start0 * pw
      first_end == first_start + pw
      first_overlap == first_end - overlap_start
      last_start == LastStart(seq_start, end0, pw)
      last_overlap == overlap_end - last_start
  IN [start |-> IF MinorOverlap(first_overlap, pw) THEN start0 + 1 ELSE start0,
      end |-> IF MinorOverlap(last_overlap, pw) THEN end0 - 1 ELSE end0]

\* row[start:end] = True with numpy's slice semantics (0 <= start here): the
\* slice is cut at the row's length
SliceAssignTrue(row, start, end) ==
  [j \in DOMAIN row |-> IF start <= j - 1 /\ j - 1 < end THEN TRUE ELSE row[j]]

\* row[start:end].sum() == end - start
SliceSumMatches(row, start, end) ==
  Cardinality({j \in DOMAIN row : start <= j - 1 /\ j - 1 < end /\ row[j]}) = end - start

AuWindows(sl) ==
  { << ModelSeq("chr1", 1, 1 + sl) >>,
    << ModelSeq("chr1", 1, 1 + sl),
       ModelSeq("chr1", 1 + sl, 1 + 2 * sl) >> }

AuRegions(sl) ==
  { Region("chr1", a, b) : a \in 0..(sl + 2), b \in 1..(sl + 3) }

AuBeds(sl) ==
  { <<r>> : r \in {x \in AuRegions(sl) : x.start < x.end} }
  \cup { <<r, q>> : r \in {x \in AuRegions(sl) : x.start < x.end},
                    q \in { Region("chr2", 0, sl + 3),
                            Region("chr1", 0, sl + 3) } }

auCallInit(ms, bed, sl, pw) ==
  /\ au_mseqs = ms
  /\ au_unmap_bed = bed
  /\ au_seq_length = sl
  /\ au_pool_width = pw
  /\ au_pc = "start"
  /\ au_lines = <<>>
  /\ au_li = 0
  /\ seqs_unmap = <<>>
  /\ pool_seq_unmap_start = 0
  /\ pool_seq_unmap_end = 0

auInit ==
  \E sl \in 1..MaxAuSeqLength, pw \in 1..MaxPoolWidth :
    \E ms \in AuWindows(sl), bed \in AuBeds(sl) :
      auCallInit(ms, bed, sl, pw)

auIdle == auCallInit(<<>>, <<>>, 1, 1)

\* lines 316-332: hash the windows, allocate the array, run bedtools
auBegin ==
  /\ au_pc = "start"
  /\ seqs_unmap' = [i \in DOMAIN au_mseqs |->
                      [j \in 1..PoolSeqLength(au_seq_length, au_pool_width) |-> FALSE]]
  /\ au_lines' = BedtoolsIntersect(au_mseqs, au_unmap_bed)
  /\ au_pc' = "lines"
  /\ UNCHANGED <<au_mseqs, au_unmap_bed, au_seq_length, au_pool_width, au_li,
                 pool_seq_unmap_start, pool_seq_unmap_end>>

\* one iteration of "for line in p.stdout" (lines 333-366)
auLine ==
  /\ au_pc = "lines"
  /\ au_li < Len(au_lines)
  /\ LET w == au_mseqs[au_lines[au_li + 1][1]]
         r == au_unmap_bed[au_lines[au_li + 1][2]]
         rng == UnmapRange(w.start, w.end, r.start, r.end, au_pool_width)
         i == ChrStartIndex(au_mseqs, w.chr, w.start)
         row == SliceAssignTrue(seqs_unmap[i], rng.start, rng.end)
     IN /\ pool_seq_unmap_start' = rng.start
        /\ pool_seq_unmap_end' = rng.end
        /\ seqs_unmap' = [seqs_unmap EXCEPT ![i] = row]
        /\ au_pc' = IF SliceSumMatches(row, rng.start, rng.end) THEN "lines" ELSE "error"
  /\ au_li' = au_li + 1
  /\ UNCHANGED <<au_mseqs, au_unmap_bed, au_seq_length, au_pool_width, au_lines>>

\* return seqs_unmap
auReturn ==
  /\ au_pc = "lines"
  /\ au_li = Len(au_lines)
  /\ au_pc' = "done"
  /\ UNCHANGED <<au_mseqs, au_unmap_bed, au_seq_length, au_pool_width, au_lines,
                 au_li, seqs_unmap, pool_seq_unmap_start, pool_seq_unmap_end>>

\* annotate_unmap as main calls it: the lines processed one after the other;
\* ok is FALSE when the assertion of some line fails
RECURSIVE AnnotateLines(_, _, _, _, _, _)
AnnotateLines(lines, li, acc, m, unmap_regions, pw) ==
  IF li > Len(lines) THEN [ok |-> TRUE, seqs_unmap |-> acc]
  ELSE LET w == m[lines[li][1]]
           r == unmap_regions[lines[li][2]]
           rng == UnmapRange(w.start, w.end, r.start, r.end, pw)
           i == ChrStartIndex(m, w.chr, w.start)
           row == SliceAssignTrue(acc[i], rng.start, rng.end)
           assigned == [k \in DOMAIN acc |-> IF k = i THEN row ELSE acc[k]]
       IN IF SliceSumMatches(row, rng.start, rng.end)
          THEN AnnotateLines(lines, li + 1, assigned, m, unmap_regions, pw)
          ELSE [ok |-> FALSE, seqs_unmap |-> assigned]

annotate_unmap(m, unmap_regions, sl, pw) ==
  AnnotateLines(BedtoolsIntersect(m, unmap_regions), 1,
                [i \in DOMAIN m |-> [j \in 1..PoolSeqLength(sl, pw) |-> FALSE]],
                m, unmap_regions, pw)

----------------------------------------------------------------------------
(* main *)

SplitChr(set) == IF set = "train" THEN "chr1" ELSE IF set = "valid" THEN "chr2" ELSE "chr3"

\* n windows of length sl tiled at stride 1.0 from the start of a contig
TiledWindows(set, n, sl) ==
  [k \in 1..n |-> ModelSeq(SplitChr(set), (k - 1) * sl, k * sl)]

Perms(n) ==
  { f \in [1..n -> 1..n] : \A a, b \in 1..n : f[a] = f[b] => a = b }

\* random.shuffle(list), with the permutation the seeded generator draws
Shuffle(list, perm) == [k \in DOMAIN list |-> list[perm[k]]]

\* regions over the first bases of the train chromosome, and one over the
\* first bases of the valid chromosome
MainRegions ==
  { Region("chr1", a, b) : a \in 0..(2 * MaxTrainSeqs - 1), b \in 1..(2 * MaxTrainSeqs) }
    \cup { Region("chr2", 0, 2) }

\* options.unmap_bed: None, or a file of regions
NoBed == [given |-> FALSE, regions |-> <<>>]
MainBeds ==
  {NoBed} \cup { [given |-> TRUE, regions |-> <<r>>] :
                   r \in {x \in MainRegions : x.start < x.end} }

\* (seq_length, pool_width)
MainShapes == { <<2, 1>>, <<3, 2>> }

\* unmap_t: the default 0.3, and 1.0
UnmapTs == { <<3, 10>>, <<1, 1>> }

mainLocalsInit ==
  /\ train_mseqs = <<>> /\ valid_mseqs = <<>> /\ test_mseqs = <<>>
  /\ mseqs = <<>> /\ mseqs_labels = <<>> /\ mseqs_unmap = <<>>
  /\ read_jobs = <<>> /\ write_jobs = <<>>
  /\ read_state = <<>> /\ write_state = <<>>

mainInit ==
  /\ pc = "shuffle"
  /\ run = 1
  /\ files = {}
  /\ files_at_start = {}
  /\ \E shape \in MainShapes :
       /\ seq_length = shape[1]
       /\ pool_width = shape[2]
       /\ unmap_bed \in MainBeds
       /\ \E nt \in 0..MaxTrainSeqs, nv \in 0..MaxHeldSeqs, ne \in 0..MaxHeldSeqs :
            /\ tiled = [train |-> TiledWindows("train", nt, shape[1]),
                        valid |-> TiledWindows("valid", nv, shape[1]),
                        test |-> TiledWindows("test", ne, shape[1])]
            /\ seed \in [train : Perms(nt), valid : Perms(nv),
                          test : Perms(ne)]
  /\ unmap_t \in (IF unmap_bed.given THEN UnmapTs ELSE { <<3, 10>> })
  /\ num_targets \in 0..MaxTargets
  /\ run_local \in BOOLEAN
  /\ seqs_per_tfr \in 1..MaxSeqsPerTfr
  /\ mainLocalsInit

mainIdle ==
  /\ pc = "idle" /\ run = 1 /\ files = {} /\ files_at_start = {}
  /\ tiled = [train |-> <<>>, valid |-> <<>>, test |-> <<>>]
  /\ seed = [train |-> <<>>, valid |-> <<>>, test |-> <<>>]
  /\ seq_length = 1 /\ pool_width = 1 /\ unmap_bed = NoBed /\ unmap_t = <<3, 10>>
  /\ num_targets = 0 /\ run_local = FALSE /\ seqs_per_tfr = 1
  /\ mainLocalsInit

Repeat(x, n) == [k \in 1..n |-> x]

\* lines 171-178: shuffle each split's windows, merge, label
mShuffleMerge ==
  /\ pc = "shuffle"
  /\ LET tr == Shuffle(tiled.train, seed.train)
         va == Shuffle(tiled.valid, seed.valid)
         te == Shuffle(tiled.test, seed.test)
     IN /\ train_mseqs' = tr /\ valid_mseqs' = va /\ test_mseqs' = te
        /\ mseqs' = tr \o va \o te
        /\ mseqs_labels' = Repeat("train", Len(tr)) \o Repeat("valid", Len(va))
                             \o Repeat("test", Len(te))
  /\ pc' = "mappability"
  /\ UNCHANGED <<run, files, files_at_start, inVars, mseqs_unmap, jobVars>>

CountTrue(row) == Cardinality({j \in DOMAIN row : row[j]})

\* row.mean(dtype='float64') < unmap_t; the mean of an empty row is nan, and
\* nan < unmap_t is False
MeanBelow_le(row, t) == Len(row) > 0 /\ CountTrue(row) * t[2] <= t[1] * Len(row)
MeanBelow(row, t) == Len(row) > 0 /\ CountTrue(row) * t[2] < t[1] * Len(row)

\* [x[i] for i in range(len(x)) if mask[i]]
RECURSIVE SelectFrom(_, _, _)
SelectFrom(x, mask, i) ==
  IF i > Len(x) THEN <<>>
  ELSE (IF mask[i] THEN <<x[i]>> ELSE <<>>) \o SelectFrom(x, mask, i + 1)
SelectByMask(x, mask) == SelectFrom(x, mask, 1)

\* lines 184-201: annotate, filter the windows, their labels and mask rows
mMappability ==
  /\ pc = "mappability"
  /\ IF ~unmap_bed.given
     THEN /\ pc' = "read_jobs"
          /\ UNCHANGED <<mseqs, mseqs_labels, mseqs_unmap>>
     ELSE LET res == annotate_unmap(mseqs, unmap_bed.regions, seq_length, pool_width)
              mseqs_map_mask == [i \in DOMAIN mseqs |-> MeanBelow(res.seqs_unmap[i], unmap_t)]
          IN IF res.ok
             THEN /\ mseqs' = SelectByMask(mseqs, mseqs_map_mask)
                  /\ mseqs_labels' = SelectByMask(mseqs_labels, mseqs_map_mask)
                  /\ mseqs_unmap' = SelectByMask(res.seqs_unmap, mseqs_map_mask)
                  /\ pc' = "read_jobs"
             ELSE /\ pc' = "error"
                  /\ UNCHANGED <<mseqs, mseqs_labels, mseqs_unmap>>
  /\ UNCHANGED <<run, files, files_at_start, inVars, train_mseqs, valid_mseqs, test_mseqs, jobVars>>

\* the output file of a coverage job, '%s/%d.h5' % (seqs_cov_dir, ti), and of
\* a shard job, '%s/%s-%d.tfr' % (tfr_dir, tvt_set, tfr_i)
SeqsCovFile(ti) == <<"seqs_cov", ti>>
TfrFile(tvt_set, tfr_i) == <<"tfrecords", tvt_set, tfr_i>>

\* the job a command string (local) or a slurm.Job (distributed) stands for
ReadJob(ti, local) ==
  [family |-> "read", backend |-> IF local THEN "local" ELSE "slurm",
   ti |-> ti, out |-> SeqsCovFile(ti)]
WriteJob(tvt_set, tfr_i, tfr_start, tfr_end, local) ==
  [family |-> "write", backend |-> IF local THEN "local" ELSE "slurm",
   set |-> tvt_set, tfr_i |-> tfr_i, start |-> tfr_start, end |-> tfr_end,
   out |-> TfrFile(tvt_set, tfr_i)]

\* if os.path.isfile(seqs_cov_file): skip
SkipExisting_never(fs, ti) == FALSE
SkipExisting(fs, ti) == SeqsCovFile(ti) \in fs

\* for ti in range(targets_df.shape[0]): ... read_jobs.append(...)
RECURSIVE BuildReadJobs(_, _, _, _)
BuildReadJobs(ti, n, fs, local) ==
  IF ti >= n THEN <<>>
  ELSE (IF SkipExisting(fs, ti) THEN <<>> ELSE <<ReadJob(ti, local)>>)
       \o BuildReadJobs(ti + 1, n, fs, local)

\* the stage after the coverage jobs are built: the dispatcher call of lines
\* 241-244
AfterReadJobs_nodispatch == "write_jobs"
AfterReadJobs == "read_run"

\* lines 208-239
mReadJobs ==
  /\ pc = "read_jobs"
  /\ read_jobs' = BuildReadJobs(0, num_targets, files, run_local)
  /\ read_state' = Repeat("pending", Len(BuildReadJobs(0, num_targets, files, run_local)))
  /\ pc' = AfterReadJobs
  /\ UNCHANGED <<run, files, files_at_start, inVars, winVars, write_jobs, write_state>>

Terminal(st) == st \in {"finished", "failed"}
AllTerminal(states) == \A k \in DOMAIN states : Terminal(states[k])

\* util.exec_par / slurm.multi_run return once every job of the family has
\* reached a terminal state
DispatchReturns(states) == AllTerminal(states)
Running(states) == {k \in DOMAIN states : states[k] = "running"}

\* util.exec_par / slurm.multi_run: start the next job of the list while
\* fewer than the allowed number are running
dStart ==
  \/ /\ pc = "read_run"
     /\ \E k \in DOMAIN read_state :
          /\ read_state[k] = "pending"
          /\ \A j \in 1..(k - 1) : read_state[j] # "pending"
          /\ Cardinality(Running(read_state)) < MaxProcesses
          /\ read_state' = [read_state EXCEPT ![k] = "running"]
     /\ UNCHANGED <<pc, run, files, files_at_start, inVars, winVars, read_jobs, write_jobs, write_state>>
  \/ /\ pc = "write_run"
     /\ \E k \in DOMAIN write_state :
          /\ write_state[k] = "pending"
          /\ \A j \in 1..(k - 1) : write_state[j] # "pending"
          /\ Cardinality(Running(write_state)) < MaxProcesses
          /\ write_state' = [write_state EXCEPT ![k] = "running"]
     /\ UNCHANGED <<pc, run, files, files_at_start, inVars, winVars, read_jobs, write_jobs, read_state>>

\* a running job exits with status 0, having written its output file
dFinish ==
  \/ /\ pc = "read_run"
     /\ \E k \in Running(read_state) :
          /\ read_state' = [read_state EXCEPT ![k] = "finished"]
          /\ files' = files \cup {read_jobs[k].out}
     /\ UNCHANGED <<pc, run, files_at_start, inVars, winVars, read_jobs, write_jobs, write_state>>
  \/ /\ pc = "write_run"
     /\ \E k \in Running(write_state) :
          /\ write_state' = [write_state EXCEPT ![k] = "finished"]
          /\ files' = files \cup {write_jobs[k].out}
     /\ UNCHANGED <<pc, run, files_at_start, inVars, winVars, read_jobs, write_jobs, read_state>>

\* a running job exits with a non-zero status: its siblings go on
dFail ==
  \/ /\ pc = "read_run"
     /\ \E k \in Running(read_state) :
          read_state' = [read_state EXCEPT ![k] = "failed"]
     /\ UNCHANGED <<pc, run, files, files_at_start, inVars, winVars, read_jobs, write_jobs, write_state>>
  \/ /\ pc = "write_run"
     /\ \E k \in Running(write_state) :
          write_state' = [write_state EXCEPT ![k] = "failed"]
     /\ UNCHANGED <<pc, run, files, files_at_start, inVars, winVars, read_jobs, write_jobs, read_state>>

\* lines 241-244: the dispatcher call returns once every job is terminal
mReadRunReturn ==
  /\ pc = "read_run"
  /\ DispatchReturns(read_state)
  /\ pc' = "write_jobs"
  /\ UNCHANGED <<run, files, files_at_start, inVars, winVars, jobVars>>

\* tvt_set_indexes = [i for i in range(len(mseqs_labels)) if mseqs_labels[i] == tvt_set]
\* (0-based indexes)
TvtSetIndexes(labels, tvt_set) == {i - 1 : i \in {k \in DOMAIN labels : labels[k] = tvt_set}}
SetMin(S) == CHOOSE x \in S : \A y \in S : x <= y
SetMax(S) == CHOOSE x \in S : \A y \in S : x >= y

\* tvt_set_end = tvt_set_indexes[-1]
TvtSetEnd_whole(labels, tvt_set) == Len(labels) - 1
TvtSetEnd(labels, tvt_set) == SetMax(TvtSetIndexes(labels, tvt_set))

\* while tfr_start <= tvt_set_end: one job; tfr_i += 1; tfr_start += seqs_per_tfr;
\* tfr_end = min(tfr_start+seqs_per_tfr, tvt_set_end)
RECURSIVE TfrLoop(_, _, _, _, _, _, _)
TfrLoop(tvt_set, tfr_i, tfr_start, tfr_end, tvt_set_end, per_tfr, local) ==
  IF tfr_start <= tvt_set_end
  THEN <<WriteJob(tvt_set, tfr_i, tfr_start, tfr_end, local)>>
       \o TfrLoop(tvt_set, tfr_i + 1, tfr_start + per_tfr,
                  Min(tfr_start + per_tfr + per_tfr, tvt_set_end),
                  tvt_set_end, per_tfr, local)
  ELSE <<>>

\* the body of "for tvt_set in ['train', 'valid', 'test']" (lines 256-292)
SetWriteJobs(labels, tvt_set, per_tfr, local) ==
  LET tvt_set_start == SetMin(TvtSetIndexes(labels, tvt_set))
      tvt_set_end == TvtSetEnd(labels, tvt_set)
  IN TfrLoop(tvt_set, 0, tvt_set_start, Min(tvt_set_start + per_tfr, tvt_set_end),
             tvt_set_end, per_tfr, local)

\* lines 249-292; tvt_set_indexes[0] raises IndexError for a split with no
\* window
mWriteJobs ==
  /\ pc = "write_jobs"
  /\ IF \E tvt_set \in {"train", "valid", "test"} : TvtSetIndexes(mseqs_labels, tvt_set) = {}
     THEN /\ pc' = "error"
          /\ UNCHANGED <<write_jobs, write_state>>
     ELSE LET jobs == SetWriteJobs(mseqs_labels, "train", seqs_per_tfr, run_local)
                       \o SetWriteJobs(mseqs_labels, "valid", seqs_per_tfr, run_local)
                       \o SetWriteJobs(mseqs_labels, "test", seqs_per_tfr, run_local)
          IN /\ write_jobs' = jobs
             /\ write_state' = Repeat("pending", Len(jobs))
             /\ pc' = "write_run"
  /\ UNCHANGED <<run, files, files_at_start, inVars, winVars, read_jobs, read_state>>

\* lines 294-297: the dispatcher call returns once every job is terminal
mWriteRunReturn ==
  /\ pc = "write_run"
  /\ DispatchReturns(write_state)
  /\ pc' = "done"
  /\ UNCHANGED <<run, files, files_at_start, inVars, winVars, jobVars>>

\* the pipeline is invoked again with the same arguments and out_dir
mRerun ==
  /\ pc \in {"done", "error"}
  /\ run < MaxRuns
  /\ run' = run + 1
  /\ pc' = "shuffle"
  /\ train_mseqs' = <<>> /\ valid_mseqs' = <<>> /\ test_mseqs' = <<>>
  /\ mseqs' = <<>> /\ mseqs_labels' = <<>> /\ mseqs_unmap' = <<>>
  /\ read_jobs' = <<>> /\ write_jobs' = <<>>
  /\ read_state' = <<>> /\ write_state' = <<>>
  /\ files_at_start' = files
  /\ UNCHANGED <<files, inVars>>

----------------------------------------------------------------------------
(* Specifications *)

InitTile == csInit /\ dcIdle /\ auIdle /\ mainIdle
NextTile ==
  \/ csFor /\ UNCHANGED <<dcVars, auVars, mainVars>>
  \/ csWhileBody /\ UNCHANGED <<dcVars, auVars, mainVars>>
  \/ csWhileExit /\ UNCHANGED <<dcVars, auVars, mainVars>>
  \/ csReturn /\ UNCHANGED <<dcVars, auVars, mainVars>>
SpecTile == InitTile /\ [][NextTile]_vars

InitDivide == dcInit /\ csIdle /\ auIdle /\ mainIdle
NextDivide ==
  \/ dcPctBegin /\ UNCHANGED <<csVars, auVars, mainVars>>
  \/ dcPctAssign /\ UNCHANGED <<csVars, auVars, mainVars>>
  \/ dcPctReturn /\ UNCHANGED <<csVars, auVars, mainVars>>
  \/ dcChrAssign /\ UNCHANGED <<csVars, auVars, mainVars>>
  \/ dcChrReturn /\ UNCHANGED <<csVars, auVars, mainVars>>
SpecDivide == InitDivide /\ [][NextDivide]_vars

InitUnmap == auInit /\ csIdle /\ dcIdle /\ mainIdle
NextUnmap ==
  \/ auBegin /\ UNCHANGED <<csVars, dcVars, mainVars>>
  \/ auLine /\ UNCHANGED <<csVars, dcVars, mainVars>>
  \/ auReturn /\ UNCHANGED <<csVars, dcVars, mainVars>>
SpecUnmap == InitUnmap /\ [][NextUnmap]_vars

Init == mainInit /\ csIdle /\ dcIdle /\ auIdle
Next ==
  \/ mShuffleMerge /\ UNCHANGED <<csVars, dcVars, auVars>>
  \/ mMappability /\ UNCHANGED <<csVars, dcVars, auVars>>
  \/ mReadJobs /\ UNCHANGED <<csVars, dcVars, auVars>>
  \/ dStart /\ UNCHANGED <<csVars, dcVars, auVars>>
  \/ dFinish /\ UNCHANGED <<csVars, dcVars, auVars>>
  \/ dFail /\ UNCHANGED <<csVars, dcVars, auVars>>
  \/ mReadRunReturn /\ UNCHANGED <<csVars, dcVars, auVars>>
  \/ mWriteJobs /\ UNCHANGED <<csVars, dcVars, auVars>>
  \/ mWriteRunReturn /\ UNCHANGED <<csVars, dcVars, auVars>>
  \/ mRerun /\ UNCHANGED <<csVars, dcVars, auVars>>
Spec == Init /\ [][Next]_vars

----------------------------------------------------------------------------
(* Properties of contig_sequences *)

\* the number of windows the loop over contig ci appended
WindowsOf(ci) == Cardinality({k \in DOMAIN cs_src : cs_src[k] = ci})

\* C1: when contig_sequences returns, every window it emitted for a contig
\* has length seq_length, starts at or after the contig's start, ends
\* strictly before the contig's end and carries the contig's chromosome.
C1_WindowsInsideContig ==
  cs_pc = "done" =>
    \A k \in DOMAIN cs_mseqs :
      LET w == cs_mseqs[k]
          c == cs_contigs[cs_src[k]]
      IN /\ w.end - w.start = cs_seq_length
         /\ w.start >= c.start
         /\ w.end < c.end
         /\ w.chr = c.chr

\* a returned tiling in which two contigs each gave windows, some overlapping
C1_Witness ==
  /\ cs_pc = "done"
  /\ Len(cs_contigs) = 2
  /\ WindowsOf(1) >= 2 /\ WindowsOf(2) >= 2
  /\ StrideStep(cs_stride, cs_seq_length) < cs_seq_length

IsExample ==
  /\ cs_contigs = ExampleContigs
  /\ cs_seq_length = ExampleSeqLength
  /\ cs_stride = ExampleStride
  /\ FilterLargeEnough(cs_contigs, cs_seq_length) = cs_contigs

\* C2 as stated: on the example the tiler emits exactly 1 window for the
\* 100,000 nt contig and exactly 3 for the 300,000 nt contig.
C2_AsStated ==
  (cs_pc = "done" /\ IsExample) => (WindowsOf(1) = 1 /\ WindowsOf(2) = 3)

\* C2 amended: on the example the tiler emits no window for the 100,000 nt
\* contig and exactly 2 for the 300,000 nt contig (the window flush with the
\* contig's end is not emitted).
C2_ExampleCounts ==
  (cs_pc = "done" /\ IsExample) =>
     /\ WindowsOf(1) = 0 /\ WindowsOf(2) = 2
     /\ cs_mseqs = << ModelSeq("chr2", 0, 100000), ModelSeq("chr2", 100000, 200000) >>

\* the tiler has returned on the example
C2_Witness == cs_pc = "done" /\ IsExample /\ Len(cs_contigs) = 2

----------------------------------------------------------------------------
(* Properties of divide_contigs_pct and divide_contigs_chr *)

Count(s, x) == Cardinality({i \in DOMAIN s : s[i] = x})

RECURSIVE SumNtFrom(_, _)
SumNtFrom(ctgs, i) ==
  IF i > Len(ctgs) THEN 0 ELSE (ctgs[i].end - ctgs[i].start) + SumNtFrom(ctgs, i + 1)
SumNt(ctgs) == SumNtFrom(ctgs, 1)

\* C7: in both split modes the returned lists partition the input contigs
\* (each input contig is in exactly one of train, valid, test) and
\* train_nt + valid_nt + test_nt is the total length of the input contigs.
C7_SplitPartitions ==
  dc_pc = "done" =>
    /\ \A c \in DivContigs :
         Count(train_contigs, c) + Count(valid_contigs, c) + Count(test_contigs, c)
           = Count(dc_contigs, c)
    /\ Len(train_contigs) + Len(valid_contigs) + Len(test_contigs) = Len(dc_contigs)
    /\ train_nt = SumNt(train_contigs)
    /\ valid_nt = SumNt(valid_contigs)
    /\ test_nt = SumNt(test_contigs)
    /\ train_nt + valid_nt + test_nt = SumNt(dc_contigs)

\* a percentage-mode split that returned with all three lists non-empty
C7_Witness ==
  /\ dc_pc = "done" /\ dc_mode = "pct"
  /\ train_contigs # <<>> /\ valid_contigs # <<>> /\ test_contigs # <<>>

----------------------------------------------------------------------------
(* Properties of annotate_unmap *)

\* window k lies inside a single unmappable region
FullyCovered(k) ==
  \E n \in DOMAIN au_unmap_bed :
    /\ au_unmap_bed[n].chr = au_mseqs[k].chr
    /\ au_unmap_bed[n].start <= au_mseqs[k].start
    /\ au_unmap_bed[n].end >= au_mseqs[k].end

\* window k shares no base with any unmappable region
ZeroOverlap(k) ==
  \A n \in DOMAIN au_unmap_bed :
    \/ au_unmap_bed[n].chr # au_mseqs[k].chr
    \/ au_unmap_bed[n].end <= au_mseqs[k].start
    \/ au_unmap_bed[n].start >= au_mseqs[k].end

AllBins(row, v) == \A j \in DOMAIN row : row[j] = v

\* the bases of the window left over after its whole bins
Remainder == au_seq_length % au_pool_width

LastWindow == au_mseqs[au_lines[au_li][1]]
LastRegion == au_unmap_bed[au_lines[au_li][2]]
RelStart == Max(LastWindow.start, LastRegion.start) - LastWindow.start
RelEnd == Min(LastWindow.end, LastRegion.end) - LastWindow.start
FirstBin == RelStart \div au_pool_width
LastBin == (RelEnd - 1) \div au_pool_width
FirstCover == (FirstBin + 1) * au_pool_width - RelStart
LastCover == RelEnd - LastBin * au_pool_width
LastRow == seqs_unmap[ChrStartIndex(au_mseqs, LastWindow.chr, LastWindow.start)]
SpansBins == au_li >= 1 /\ FirstBin < LastBin

\* C9 as stated: for an overlap spanning more than one bin, an edge bin
\* covered to exactly 20% is excluded from the marked range and an edge bin
\* covered to 21% or more is included.
C9_AsStated ==
  SpansBins =>
    /\ 5 * FirstCover = au_pool_width => pool_seq_unmap_start = FirstBin + 1
    /\ 100 * FirstCover >= 21 * au_pool_width => pool_seq_unmap_start = FirstBin
    /\ 5 * LastCover = au_pool_width => pool_seq_unmap_end = LastBin
    /\ 100 * LastCover >= 21 * au_pool_width => pool_seq_unmap_end = LastBin + 1

\* C9 amended: for an overlap spanning more than one bin, an edge bin is
\* excluded from the marked range exactly when the overlap covers strictly
\* less than 20% of it; at exactly 20%, as at 21% or more, the edge bin is in
\* the range, and every bin of the range that is a column of the mask is true.
C9_EdgeBinThreshold ==
  SpansBins =>
    /\ pool_seq_unmap_start =
         (IF 5 * FirstCover < au_pool_width THEN FirstBin + 1 ELSE FirstBin)
    /\ pool_seq_unmap_end =
         (IF 5 * LastCover < au_pool_width THEN LastBin ELSE LastBin + 1)
    /\ \A j \in DOMAIN LastRow :
         (pool_seq_unmap_start <= j - 1 /\ j - 1 < pool_seq_unmap_end) => LastRow[j]

\* an overlap over several bins covering exactly 20% of its first bin and of
\* its last bin, both of which were marked
C9_Witness ==
  /\ SpansBins
  /\ 5 * FirstCover = au_pool_width /\ 5 * LastCover = au_pool_width
  /\ pool_seq_unmap_start = FirstBin /\ pool_seq_unmap_end = LastBin + 1
  /\ LastBin + 1 <= Len(LastRow)
  /\ LastRow[FirstBin + 1] /\ LastRow[LastBin + 1]

----------------------------------------------------------------------------
(* Properties of main: the job families *)

JobsBuilt == pc \in {"write_run", "done"}

\* the shard jobs of one split, in the order built
JobsOf(tvt_set) == SelectSeq(write_jobs, LAMBDA j : j.set = tvt_set)

\* C3: for a split of n >= 1 windows and shard size s the sharder emits
\* ceil(n/s) jobs with consecutive, disjoint half-open ranges [start, end),
\* each of s windows but the last, which has n - s*(ceil(n/s)-1) >= 1, so
\* that the ranges cover the n windows of the split.
C3_ShardsCoverSplit ==
  JobsBuilt =>
    \A tvt_set \in {"train", "valid", "test"} :
      LET idx == TvtSetIndexes(mseqs_labels, tvt_set)
          n == Cardinality(idx)
          s == seqs_per_tfr
          J == JobsOf(tvt_set)
          shards == (n + s - 1) \div s
      IN /\ n >= 1
         /\ Len(J) = shards
         /\ J[1].start = SetMin(idx)
         /\ \A k \in 1..(Len(J) - 1) :
              J[k].end = J[k + 1].start /\ J[k].end - J[k].start = s
         /\ J[Len(J)].end - J[Len(J)].start = n - s * (shards - 1)
         /\ J[Len(J)].end - J[Len(J)].start >= 1
         /\ J[Len(J)].end = SetMax(idx) + 1

\* every output of the pipeline's jobs on these inputs: one coverage file per
\* target row and one file per shard
AllOutputs ==
  { SeqsCovFile(ti) : ti \in 0..(num_targets - 1) }
    \cup { write_jobs[k].out : k \in DOMAIN write_jobs }

\* C4: a second run on the same inputs that finds every output file of the
\* first run present builds no coverage job and no shard-writing job.
C4_SecondRunNoJobs ==
  (run = 2 /\ JobsBuilt /\ AllOutputs \subseteq files_at_start) =>
    (read_jobs = <<>> /\ write_jobs = <<>>)

ReadJobsBuilt == pc \in {"read_run", "write_jobs", "write_run", "done"}

\* the target rows whose coverage file the invocation did not find
MissingRows == { ti \in 0..(num_targets - 1) : <<"seqs_cov", ti>> \notin files_at_start }

\* C5: the coverage job list holds exactly one job for each target row whose
\* output file did not exist, in row order, and none for a row whose file
\* existed, in local and in distributed mode.
C5_ReadJobsForMissingOnly ==
  ReadJobsBuilt =>
    /\ Len(read_jobs) = Cardinality(MissingRows)
    /\ \A k \in DOMAIN read_jobs :
         /\ read_jobs[k].family = "read"
         /\ read_jobs[k].ti \in MissingRows
         /\ read_jobs[k].out = <<"seqs_cov", read_jobs[k].ti>>
         /\ read_jobs[k].backend = (IF run_local THEN "local" ELSE "slurm")
    /\ \A k \in 1..(Len(read_jobs) - 1) : read_jobs[k].ti < read_jobs[k + 1].ti

\* a re-run that found the coverage file of row 0 but not that of row 1
C5_Witness ==
  /\ run = 2 /\ pc = "read_run" /\ num_targets = 2
  /\ <<"seqs_cov", 0>> \in files_at_start
  /\ Len(read_jobs) = 1 /\ read_jobs[1].ti = 1

\* C6: no shard-writing job is built or started before every coverage job of
\* the run is terminal, and the coverage family's dispatcher call has
\* returned only if all its jobs are terminal.
C6_CoverageBeforeShards ==
  (\/ pc \in {"write_jobs", "write_run", "done"}
   \/ write_jobs # <<>>
   \/ \E k \in DOMAIN write_state : write_state[k] # "pending")
  => /\ Len(read_state) = Len(read_jobs)
     /\ \A k \in DOMAIN read_state : read_state[k] \in {"finished", "failed"}

\* a shard job runs after two coverage jobs ended, one of them failed
C6_Witness ==
  /\ pc = "write_run"
  /\ \E k \in DOMAIN write_state : write_state[k] = "running"
  /\ Len(read_jobs) = 2
  /\ read_state[1] = "failed" /\ read_state[2] = "finished"

----------------------------------------------------------------------------
(* Properties of main: the mappability filter *)

\* the windows and labels before the filter
Merged == train_mseqs \o valid_mseqs \o test_mseqs
MergedLabels ==
  [k \in 1..Len(Merged) |->
     IF k <= Len(train_mseqs) THEN "train"
     ELSE IF k <= Len(train_mseqs) + Len(valid_mseqs) THEN "valid" ELSE "test"]

\* the rows of unmap whose mean is strictly below unmap_t
BelowThreshold(unmap) ==
  { i \in DOMAIN unmap :
      /\ Len(unmap[i]) > 0
      /\ Cardinality({j \in DOMAIN unmap[i] : unmap[i][j]}) * unmap_t[2]
           < unmap_t[1] * Len(unmap[i]) }

\* the k-th smallest member of a set of indexes
Kth(S, k) == CHOOSE i \in S : Cardinality({j \in S : j < i}) = k - 1

\* the filter has just run
Filtered == unmap_bed.given /\ pc = "read_jobs"

----------------------------------------------------------------------------
(* C11: abstention keeps valid and test at or below their aims *)

RatLE(x, y) == ~RatLT(y, x)

\* the assignment loop of divide_contigs_pct has started
PctAssigning == dc_mode = "pct" /\ dc_pc \in {"loop", "done", "error"}

\* C11: in percentage mode with pct_abstain <= 1, after every contig
\* assignment and for every sequence of draws, valid_nt <= valid_pct*total_nt
\* and test_nt <= test_pct*total_nt.
C11_HeldOutWithinAim ==
  (PctAssigning /\ RatLE(dc_pct_abstain, RatOfInt(1))) =>
    /\ RatLE(RatOfInt(valid_nt), valid_nt_aim)
    /\ RatLE(RatOfInt(test_nt), test_nt_aim)

\* a contig longer than the whole valid aim went to train, and later
\* contigs were drawn into valid and into test
C11_Witness ==
  /\ dc_mode = "pct" /\ dc_pc = "done"
  /\ RatLE(dc_pct_abstain, RatOfInt(1))
  /\ valid_nt > 0 /\ test_nt > 0
  /\ \E k \in DOMAIN train_contigs :
       RatLT(valid_nt_aim, RatOfInt(train_contigs[k].end - train_contigs[k].start))


----------------------------------------------------------------------------
(* C12: bins marked from a sliver of overlap *)

\* the bases of bin b (0-based) that the overlap of the last line covers
BinCover(b) ==
  Max(0, Min(RelEnd, (b + 1) * au_pool_width) - Max(RelStart, b * au_pool_width))

\* the bins the last line marked: its range, cut at the row's columns
MarkedBins ==
  { b \in 0..(Len(LastRow) - 1) : pool_seq_unmap_start <= b /\ b < pool_seq_unmap_end }

\* C12: for every overlap, one inside a single bin included, a bin is marked
\* true by that overlap only if the overlap covers at least 20% of the bin's
\* width.
C12_SliverNeverMarks ==
  au_li >= 1 => \A b \in MarkedBins : 5 * BinCover(b) >= au_pool_width


----------------------------------------------------------------------------
(* C13: the bin range against the columns of the mask *)

\* the range of the last line lies within the columns of the mask
RangeInside ==
  /\ 0 <= pool_seq_unmap_start
  /\ pool_seq_unmap_start <= pool_seq_unmap_end
  /\ pool_seq_unmap_end <= PoolSeqLength(au_seq_length, au_pool_width)

\* C13: for every overlap reported for a window, the trimmed bin range
\* satisfies 0 <= bin_start <= bin_end <= seq_length // pool_width unless the
\* run halts with an error on that overlap; a range outside the columns
\* arises only when pool_width does not divide seq_length, and the run never
\* continues past one.
C13_RangeInsideOrHalts ==
  au_li >= 1 =>
    /\ ~RangeInside => Remainder > 0
    /\ au_pc # "error" => RangeInside


----------------------------------------------------------------------------
(* C14: split blocks and shard ranges *)

\* the final window list exists
Merging == pc \in {"read_jobs", "read_run", "write_jobs", "write_run", "done"}

SetRank(tvt_set) == IF tvt_set = "train" THEN 1 ELSE IF tvt_set = "valid" THEN 2 ELSE 3

\* C14: in the final window list, with or without the mappability filter,
\* train windows precede valid windows which precede test windows, each
\* label on a window of its own split; and the range [start, end) of every
\* shard-writing job lies inside the index range of its split, so that it
\* holds windows of that split only.
C14_BlocksAndShards ==
  /\ Merging =>
       /\ Len(mseqs_labels) = Len(mseqs)
       /\ \A i \in DOMAIN mseqs_labels :
            /\ mseqs[i].chr = SplitChr(mseqs_labels[i])
            /\ \A j \in DOMAIN mseqs_labels :
                 i < j => SetRank(mseqs_labels[i]) <= SetRank(mseqs_labels[j])
  /\ JobsBuilt =>
       \A k \in DOMAIN write_jobs :
         LET idx == TvtSetIndexes(mseqs_labels, write_jobs[k].set)
         IN /\ SetMin(idx) <= write_jobs[k].start
            /\ write_jobs[k].start <= write_jobs[k].end
            /\ write_jobs[k].end <= SetMax(idx) + 1
            /\ \A i \in write_jobs[k].start..(write_jobs[k].end - 1) :
                 mseqs_labels[i + 1] = write_jobs[k].set

\* the filter ran, the three splits have jobs, and a train shard holding a
\* window is followed by the valid block
C14_Witness ==
  /\ JobsBuilt
  /\ unmap_bed.given
  /\ \A tvt_set \in {"train", "valid", "test"} : JobsOf(tvt_set) # <<>>
  /\ \E k \in DOMAIN write_jobs :
       /\ write_jobs[k].set = "train"
       /\ write_jobs[k].end > write_jobs[k].start
       /\ mseqs_labels[write_jobs[k].end + 2] = "valid"


----------------------------------------------------------------------------
(* C15: progress of the tiling loop *)

\* an iteration of the while loop has run: a window was appended
WhileIterated == cs_pc = "while" /\ cs_pc' = "while" /\ Len(cs_mseqs') = Len(cs_mseqs) + 1

\* C15: for every stride multiplier > 0, one with floor(stride * seq_length)
\* = 0 included, contig_sequences terminates: every iteration of the tiling
\* loop moves the window end towards contig.end, so the loop condition
\* seq_end < ctg_end fails after finitely many iterations.
C15_TilingTerminates ==
  [][(WhileIterated /\ RatPos(cs_stride)) => cs_seq_end' > cs_seq_end]_vars

=============================================================================
